---------------------------- MODULE Spec2Model ----------------------------
(***************************************************************************)
(* Model of zk-token-sdk/src/instruction/transfer_with_fee.rs:             *)
(* TransferWithFeeData::new (with TransferWithFeeProof::new inlined as its *)
(* steps), TransferWithFeeData::verify (with TransferWithFeeProof::verify  *)
(* inlined), TransferWithFeeData::decrypt_amount, and the helpers          *)
(* calculate_fee, compute_delta_commitment(_and_opening).                  *)
(*                                                                         *)
(* Numbers.  TLC's integers are 32 bits wide, so the machine word u64 is   *)
(* modelled at width U64Bits and u32 at half of it; u16 and               *)
(* FEE_DENOMINATOR keep their real values.  The u128 intermediate of       *)
(* calculate_fee never overflows in the code (64 + 16 < 128 bits) and is   *)
(* modelled by exact integers.  Scalars of the group are modelled by       *)
(* integers: every value that occurs is far below the group order.         *)
(*                                                                         *)
(* Cryptography.  A Pedersen commitment v*G + r*H is the pair (v, r); an   *)
(* opening r is a linear combination of the independent random openings    *)
(* drawn during generation, i.e. a coefficient vector over OpeningNames.   *)
(* A decrypt handle r*P is the pair (pk, r).                               *)
(***************************************************************************)
EXTENDS Integers, Sequences, FiniteSets, TLC

\* Width of the modelled u64 word.
U64Bits == 14

\* const FEE_DENOMINATOR: u64 = 10000
FEE_DENOMINATOR == 10000

\* largest u16 (type of fee_rate_basis_points)
U16_MAX == 65535

U32Bits == (U64Bits + 1) \div 2
TWO_64 == 2 ^ U64Bits
TWO_32 == 2 ^ U32Bits
U64_MAX == TWO_64 - 1

Min(a, b) == IF a < b THEN a ELSE b

-----------------------------------------------------------------------------
(* Keys: each party's keypair is named by the party. *)
Keys == {"source", "dest", "auditor", "fee_collector"}
Roles == {"Source", "Dest", "Auditor"}

PubkeyOf(sk) == sk

-----------------------------------------------------------------------------
(* Pedersen openings and commitments *)
OpeningNames == {"old", "lo", "hi", "fee", "source", "claimed", "junk"}

\* PedersenOpening::default(): the zero scalar
OpeningDefault == [n \in OpeningNames |-> 0]

\* PedersenOpening::random(): a fresh independent scalar, named by its use
OpeningRandom(name) == [n \in OpeningNames |-> IF n = name THEN 1 ELSE 0]

OpeningAdd(a, b) == [n \in OpeningNames |-> a[n] + b[n]]
OpeningSub(a, b) == [n \in OpeningNames |-> a[n] - b[n]]
OpeningScale(a, k) == [n \in OpeningNames |-> a[n] * k]

\* Pedersen::with(amount, opening)
PedersenWith(amount, opening) == [v |-> amount, r |-> opening]

\* Pedersen::encode(amount): a commitment with the zero opening
PedersenEncode(amount) == PedersenWith(amount, OpeningDefault)

CommitmentAdd(a, b) == [v |-> a.v + b.v, r |-> OpeningAdd(a.r, b.r)]
CommitmentSub(a, b) == [v |-> a.v - b.v, r |-> OpeningSub(a.r, b.r)]
CommitmentScale(a, k) == [v |-> a.v * k, r |-> OpeningScale(a.r, k)]

\* COMMITMENT_FEE_DENOMINATOR = Pedersen::encode(FEE_DENOMINATOR)
COMMITMENT_FEE_DENOMINATOR == PedersenEncode(FEE_DENOMINATOR)

\* ElGamalPubkey::decrypt_handle(opening)
DecryptHandleOf(pk, opening) == [pk |-> pk, r |-> opening]

HandleAdd(a, b) == [pk |-> a.pk, r |-> OpeningAdd(a.r, b.r)]
HandleSub(a, b) == [pk |-> a.pk, r |-> OpeningSub(a.r, b.r)]
HandleScale(a, k) == [pk |-> a.pk, r |-> OpeningScale(a.r, k)]

ElGamalCiphertext(commitment, handle) == [commitment |-> commitment, handle |-> handle]

CiphertextSub(a, b) ==
    ElGamalCiphertext(CommitmentSub(a.commitment, b.commitment),
                      HandleSub(a.handle, b.handle))

\* split_u64_into_u32
split_u64_into_u32(amount) == [lo |-> amount % TWO_32, hi |-> amount \div TWO_32]

\* combine_u32_commitments, combine_u32_openings, combine_u32_ciphertexts
combine_u32_commitments(lo, hi) == CommitmentAdd(lo, CommitmentScale(hi, TWO_32))
combine_u32_openings(lo, hi) == OpeningAdd(lo, OpeningScale(hi, TWO_32))
combine_u32_ciphertexts(lo, hi) ==
    ElGamalCiphertext(combine_u32_commitments(lo.commitment, hi.commitment),
                      HandleAdd(lo.handle, HandleScale(hi.handle, TWO_32)))

\* TransferAmountEncryption::new(amount, source, dest, auditor) with a fresh opening
TransferAmountEncryptionNew(amount, opening) ==
    [commitment |-> PedersenWith(amount, opening),
     source |-> DecryptHandleOf("source", opening),
     dest |-> DecryptHandleOf("dest", opening),
     auditor |-> DecryptHandleOf("auditor", opening)]

\* ElGamalCiphertext::decrypt_u32_online: the discrete log search over the
\* 32-bit space resolves only for a ciphertext of a 32-bit value under sk.
Some(x) == [some |-> TRUE, val |-> x]
None == [some |-> FALSE, val |-> 0]

decrypt_u32_online(ciphertext, sk) ==
    IF /\ ciphertext.handle.pk = PubkeyOf(sk)
       /\ ciphertext.handle.r = ciphertext.commitment.r
       /\ ciphertext.commitment.v >= 0
       /\ ciphertext.commitment.v < TWO_32
    THEN Some(ciphertext.commitment.v)
    ELSE None

-----------------------------------------------------------------------------
(* Fixed-size encodings (pod types): to_bytes / into, and from_bytes / try_into *)
Pod(ty, body) == [ty |-> ty, valid |-> TRUE, body |-> body]

\* try_into()?: Err(ProofError::Verification) on bytes that are no valid encoding
TryInto(pod) == IF pod.valid THEN Some(pod.body) ELSE None

-----------------------------------------------------------------------------
(* Merlin transcript: the ordered list of what was appended *)
TranscriptNewLabel(label) == << [label |-> "dom-sep", msg |-> Pod("label", label)] >>

append_message(tr, label, pod) == Append(tr, [label |-> label, msg |-> pod])

\* transcript.append_commitment(label, pod_commitment)
append_commitment(tr, label, pod) == append_message(tr, label, pod)

\* TransferWithFeeProof::transcript_new
transcript_new(transfer_with_fee_pubkeys, ciphertext_lo, ciphertext_hi, ciphertext_fee) ==
    LET t0 == TranscriptNewLabel("FeeProof")
        t1 == append_message(t0, "transfer-with-fee-pubkeys", transfer_with_fee_pubkeys)
        t2 == append_message(t1, "ciphertext-lo", ciphertext_lo)
        t3 == append_message(t2, "ciphertext-hi", ciphertext_hi)
        t4 == append_message(t3, "ciphertext-fee", ciphertext_fee)
    IN t4

-----------------------------------------------------------------------------
(* Sub-proof primitives.  A proof is its first-round message y, the witness  *)
(* w its responses encode, and the challenge c, which Fiat-Shamir derives     *)
(* from the transcript at the start of the step and y.  A verifier           *)
(* recomputes the challenge from its own transcript and accepts when it is   *)
(* the proof's and the witness is what the public values it is handed        *)
(* commit to.                                                                *)
Challenge(tr, y) == [tr |-> tr, y |-> y]

SigmaProof(y, w, tr) == [y |-> y, w |-> w, c |-> Challenge(tr, y)]

ChallengeMatches(proof, tr) == proof.c = Challenge(tr, proof.y)

\* what a sub-proof step (prover or verifier) leaves in the transcript
TranscriptAfter(tr, kind, proof) == append_message(tr, kind, Pod("Y", proof.y))

\* EqualityProof::new(keypair_source, ciphertext, amount, opening, transcript)
EqualityProofNew(sk, amount, opening, tr) ==
    SigmaProof("equality", [sk |-> sk, x |-> amount, r |-> opening], tr)

\* EqualityProof::verify(pubkey_source, ciphertext, commitment, transcript)
EqualityProofVerify(proof, pubkey_source, ciphertext, commitment, tr) ==
    /\ ChallengeMatches(proof, tr)
    /\ PubkeyOf(proof.w.sk) = pubkey_source
    /\ ciphertext.handle = DecryptHandleOf(pubkey_source, ciphertext.commitment.r)
    /\ ciphertext.commitment.v = proof.w.x
    /\ commitment = PedersenWith(proof.w.x, proof.w.r)

\* AggregatedValidityProof::new((dest, auditor), (lo, hi), (opening_lo, opening_hi), transcript)
AggregatedValidityProofNew(amount_lo, amount_hi, opening_lo, opening_hi, tr) ==
    SigmaProof("aggregated-validity",
               [x_lo |-> amount_lo, x_hi |-> amount_hi,
                r_lo |-> opening_lo, r_hi |-> opening_hi], tr)

\* AggregatedValidityProof::verify((dest, auditor), (C_lo, C_hi), (D_lo, D_hi)_dest, (D_lo, D_hi)_auditor, transcript)
AggregatedValidityProofVerify(proof, pubkey_dest, pubkey_auditor, ciphertext_lo, ciphertext_hi, tr) ==
    /\ ChallengeMatches(proof, tr)
    /\ ciphertext_lo.commitment = PedersenWith(proof.w.x_lo, proof.w.r_lo)
    /\ ciphertext_hi.commitment = PedersenWith(proof.w.x_hi, proof.w.r_hi)
    /\ ciphertext_lo.dest = DecryptHandleOf(pubkey_dest, proof.w.r_lo)
    /\ ciphertext_hi.dest = DecryptHandleOf(pubkey_dest, proof.w.r_hi)
    /\ ciphertext_lo.auditor = DecryptHandleOf(pubkey_auditor, proof.w.r_lo)
    /\ ciphertext_hi.auditor = DecryptHandleOf(pubkey_auditor, proof.w.r_hi)

\* FeeSigmaProof::new((fee_amount, C_fee, r_fee), (delta_fee, C_delta, r_delta),
\*                    (C_claimed, r_claimed), max_fee, transcript):
\* the prover proves the branch its fee_amount selects, max_fee > fee_amount
\* (C_delta and C_claimed commit to delta_fee), or else (C_fee commits to max_fee).
FeeSigmaProofNew(fee_amount, opening_fee, delta_fee, opening_delta, opening_claimed, max_fee, tr) ==
    SigmaProof("fee-sigma",
               [fee_amount |-> fee_amount, opening_fee |-> opening_fee,
                delta_fee |-> delta_fee, opening_delta |-> opening_delta,
                opening_claimed |-> opening_claimed,
                below_max |-> (max_fee > fee_amount)], tr)

\* FeeSigmaProof::verify(C_fee, C_delta, C_claimed, max_fee, transcript)
FeeSigmaProofVerify(proof, commitment_fee, commitment_delta, commitment_claimed, max_fee, tr) ==
    /\ ChallengeMatches(proof, tr)
    /\ IF proof.w.below_max
       THEN /\ commitment_delta = PedersenWith(proof.w.delta_fee, proof.w.opening_delta)
            /\ commitment_claimed = PedersenWith(proof.w.delta_fee, proof.w.opening_claimed)
       ELSE commitment_fee = PedersenWith(max_fee, proof.w.opening_fee)

\* ValidityProof::new((dest, fee_collector), amount, opening, transcript)
ValidityProofNew(amount, opening, tr) ==
    SigmaProof("validity", [x |-> amount, r |-> opening], tr)

\* ValidityProof::verify(commitment, (dest, fee_collector), (D_dest, D_fee_collector), transcript)
ValidityProofVerify(proof, ciphertext_fee, pubkey_dest, pubkey_fee_collector, tr) ==
    /\ ChallengeMatches(proof, tr)
    /\ ciphertext_fee.commitment = PedersenWith(proof.w.x, proof.w.r)
    /\ ciphertext_fee.dest = DecryptHandleOf(pubkey_dest, proof.w.r)
    /\ ciphertext_fee.fee_collector = DecryptHandleOf(pubkey_fee_collector, proof.w.r)

\* The range of a bit length: 64 is the modelled u64 word, 32 its half.
RangeOfBits(bits) == IF bits = 64 THEN TWO_64 ELSE TWO_32

\* RangeProof::new(amounts, bit_lengths, openings, transcript)
RangeProofNew(amounts, bit_lengths, openings, tr) ==
    SigmaProof("range", [amounts |-> amounts, bit_lengths |-> bit_lengths,
                         openings |-> openings], tr)

\* RangeProof::verify(commitments, bit_lengths, transcript)
RangeProofVerify(proof, commitments, bit_lengths, tr) ==
    /\ ChallengeMatches(proof, tr)
    /\ proof.w.bit_lengths = bit_lengths
    /\ Len(commitments) = Len(proof.w.amounts)
    /\ \A i \in 1..Len(commitments) :
          /\ commitments[i] = PedersenWith(proof.w.amounts[i], proof.w.openings[i])
          /\ proof.w.amounts[i] >= 0
          /\ proof.w.amounts[i] < RangeOfBits(bit_lengths[i])

-----------------------------------------------------------------------------
(* Fee arithmetic *)

\* calculate_fee: the u128 product is exact; `as u64` keeps the low word;
\* fee + 1 on the largest word overflows (a panic in a build with overflow
\* checks, a wrap to 0 otherwise): overflow says that it happened.
calculate_fee(transfer_amount, fee_rate_basis_points) ==
    LET fee_scaled == transfer_amount * fee_rate_basis_points
        fee == (fee_scaled \div FEE_DENOMINATOR) % TWO_64
        rem == (fee_scaled % FEE_DENOMINATOR) % TWO_64
    IN  IF rem = 0
        THEN [fee |-> fee, rem |-> rem, overflow |-> FALSE]
        ELSE [fee |-> (fee + 1) % TWO_64, rem |-> rem, overflow |-> (fee + 1 >= TWO_64)]

\* subtle::ConstantTimeGreater: u64::ct_gt(a, b) is a > b
ct_gt(a, b) == a > b

\* subtle::ConditionallySelectable: conditional_select(a, b, choice) is b when choice, else a
conditional_select(a, b, choice) == IF choice THEN b ELSE a

\* the selection with its arguments the other way round
fee_to_encrypt_swapped(fee_amount, maximum_fee) ==
    LET below_max == ct_gt(maximum_fee, fee_amount)
    IN  conditional_select(fee_amount, maximum_fee, below_max)

\* let below_max = ...; let fee_to_encrypt = ...
fee_to_encrypt(fee_amount, maximum_fee) ==
    LET below_max == ct_gt(maximum_fee, fee_amount)
    IN  conditional_select(maximum_fee, fee_amount, below_max)

\* FeeEncryption::new(amount, pubkey_dest, pubkey_fee_collector) with its fresh opening
FeeEncryptionNew(amount, opening) ==
    [commitment |-> PedersenWith(amount, opening),
     dest |-> DecryptHandleOf("dest", opening),
     fee_collector |-> DecryptHandleOf("fee_collector", opening)]

\* pod::TransferWithFeePubkeys::new(source, dest, auditor, fee_collector)
PodTransferWithFeePubkeysNew(source, dest, auditor, fee_collector) ==
    Pod("TransferWithFeePubkeys",
        [source |-> source, dest |-> dest, auditor |-> auditor,
         fee_collector |-> fee_collector])

\* FeeParameters { fee_rate_basis_points, maximum_fee }
FeeParameters(fee_rate_basis_points, maximum_fee) ==
    [fee_rate_basis_points |-> fee_rate_basis_points, maximum_fee |-> maximum_fee]

-----------------------------------------------------------------------------
(* Delta commitment *)

\* compute_delta_commitment_and_opening
compute_delta_commitment_and_opening(commitment_lo, opening_lo, commitment_hi, opening_hi, commitment_fee, opening_fee, fee_rate_basis_points) ==
    LET fee_rate_scalar == fee_rate_basis_points
        commitment_delta ==
            CommitmentSub(CommitmentScale(commitment_fee, FEE_DENOMINATOR),
                          CommitmentScale(combine_u32_commitments(commitment_lo, commitment_hi),
                                          fee_rate_scalar))
        opening_delta ==
            OpeningSub(OpeningScale(opening_fee, FEE_DENOMINATOR),
                       OpeningScale(combine_u32_openings(opening_lo, opening_hi),
                                    fee_rate_scalar))
    IN  [commitment |-> commitment_delta, opening |-> opening_delta]

\* the recomputation with the high limb's weight forgotten
compute_delta_commitment_unweighted(commitment_lo, commitment_hi, commitment_fee, fee_rate_basis_points) ==
    LET fee_rate_scalar == fee_rate_basis_points
    IN  CommitmentSub(CommitmentScale(commitment_fee, FEE_DENOMINATOR),
                      CommitmentScale(CommitmentAdd(commitment_lo, commitment_hi),
                                      fee_rate_scalar))

\* compute_delta_commitment
compute_delta_commitment(commitment_lo, commitment_hi, commitment_fee, fee_rate_basis_points) ==
    LET fee_rate_scalar == fee_rate_basis_points
    IN  CommitmentSub(CommitmentScale(commitment_fee, FEE_DENOMINATOR),
                      CommitmentScale(combine_u32_commitments(commitment_lo, commitment_hi),
                                      fee_rate_scalar))

-----------------------------------------------------------------------------
(* Inputs *)
Amounts == {0, 100, 101, 2500, 10000, TWO_32 + 1, U64_MAX}
Balances == {120, U64_MAX}
FeeRates == {0, 100, 10000, U16_MAX}
MaximumFees == {0, 2, 3, 50, U64_MAX}

\* what the ciphertext handed in as ciphertext_old_source encrypts: the
\* spendable balance, or (a caller's mistake) another amount
OldCiphertextAmounts(spendable_balance) == {spendable_balance, spendable_balance - 1}

\* keypair_source.public.encrypt(amount)
ElGamalEncrypt(pk, amount, opening) ==
    ElGamalCiphertext(PedersenWith(amount, opening), DecryptHandleOf(pk, opening))

-----------------------------------------------------------------------------
VARIABLES
    pc,          \* position of the running call, or idle / ready between calls
    args,        \* arguments of TransferWithFeeData::new
    gen,         \* local variables of TransferWithFeeData::new and TransferWithFeeProof::new
    ver,         \* local variables of TransferWithFeeData::verify and TransferWithFeeProof::verify
    transcript,  \* the transcript of the running call
    calls,       \* sub-proof generators / verifiers invoked by the running call, in order
    envelope,    \* the TransferWithFeeData that new returned (as held by a verifier)
    tampered,    \* which field of the envelope was altered after generation, if any
    ret          \* what the last call returned

vars == <<pc, args, gen, ver, transcript, calls, envelope, tampered, ret>>

NoArgs == [none |-> TRUE]
NoLocals == [none |-> TRUE]
NoEnvelope == [none |-> TRUE]
NoTranscript == << >>

Returned(op, ok, val, err) == [op |-> op, ok |-> ok, val |-> val, err |-> err]
NotReturned == Returned("none", FALSE, 0, "")

Init ==
    /\ pc = "idle"
    /\ args = NoArgs
    /\ gen = NoLocals
    /\ ver = NoLocals
    /\ transcript = NoTranscript
    /\ calls = << >>
    /\ envelope = NoEnvelope
    /\ tampered = "none"
    /\ ret = NotReturned

-----------------------------------------------------------------------------
(* TransferWithFeeData::new *)

\* split and encrypt transfer amount
New_SplitEncrypt ==
    /\ pc = "idle"
    /\ \E transfer_amount \in Amounts, spendable_balance \in Balances,
          fee_rate_basis_points \in FeeRates, maximum_fee \in MaximumFees :
         \E old_amount \in OldCiphertextAmounts(spendable_balance) :
            LET s == split_u64_into_u32(transfer_amount)
                opening_lo == OpeningRandom("lo")
                opening_hi == OpeningRandom("hi")
            IN  /\ args' = [transfer_amount |-> transfer_amount,
                            spendable_balance |-> spendable_balance,
                            ciphertext_old_source |->
                                ElGamalEncrypt("source", old_amount, OpeningRandom("old")),
                            fee_parameters |->
                                FeeParameters(fee_rate_basis_points, maximum_fee)]
                /\ gen' = [amount_lo |-> s.lo, amount_hi |-> s.hi,
                           ciphertext_lo |-> TransferAmountEncryptionNew(s.lo, opening_lo),
                           opening_lo |-> opening_lo,
                           ciphertext_hi |-> TransferAmountEncryptionNew(s.hi, opening_hi),
                           opening_hi |-> opening_hi]
    /\ pc' = "new_checked_sub"
    /\ UNCHANGED <<ver, transcript, calls, envelope, tampered, ret>>

\* a subtraction that clamps at zero instead of failing
New_CheckedSub_Saturating ==
    /\ pc = "new_checked_sub"
    /\ gen' = gen @@ [new_spendable_balance |->
                        IF args.spendable_balance >= args.transfer_amount
                        THEN args.spendable_balance - args.transfer_amount
                        ELSE 0]
    /\ pc' = "new_fee"
    /\ UNCHANGED <<args, ver, transcript, calls, envelope, tampered, ret>>

\* spendable_balance.checked_sub(transfer_amount).ok_or(ProofError::Generation)?
New_CheckedSub ==
    /\ pc = "new_checked_sub"
    /\ IF args.spendable_balance >= args.transfer_amount
       THEN /\ gen' = gen @@ [new_spendable_balance |->
                                args.spendable_balance - args.transfer_amount]
            /\ pc' = "new_fee"
            /\ ret' = ret
       ELSE /\ gen' = gen
            /\ pc' = "failed"
            /\ ret' = Returned("new", FALSE, 0, "ProofError::Generation")
    /\ UNCHANGED <<args, ver, transcript, calls, envelope, tampered>>

\* new source ciphertext; calculate and encrypt fee
New_Fee ==
    /\ pc = "new_fee"
    /\ LET transfer_amount_lo_source ==
               ElGamalCiphertext(gen.ciphertext_lo.commitment, gen.ciphertext_lo.source)
           transfer_amount_hi_source ==
               ElGamalCiphertext(gen.ciphertext_hi.commitment, gen.ciphertext_hi.source)
           ciphertext_new_source ==
               CiphertextSub(args.ciphertext_old_source,
                             combine_u32_ciphertexts(transfer_amount_lo_source,
                                                     transfer_amount_hi_source))
           f == calculate_fee(args.transfer_amount, args.fee_parameters.fee_rate_basis_points)
           to_encrypt == fee_to_encrypt(f.fee, args.fee_parameters.maximum_fee)
           opening_fee == OpeningRandom("fee")
       IN  \/ /\ f.overflow
              /\ pc' = "panicked"
              /\ ret' = Returned("new", FALSE, 0, "panic")
              /\ gen' = gen
           \/ /\ gen' = gen @@ [ciphertext_new_source |-> ciphertext_new_source,
                                fee_amount |-> f.fee,
                                delta_fee |-> f.rem,
                                fee_to_encrypt |-> to_encrypt,
                                ciphertext_fee |-> FeeEncryptionNew(to_encrypt, opening_fee),
                                opening_fee |-> opening_fee]
              /\ pc' = "new_transcript"
              /\ ret' = ret
    /\ UNCHANGED <<args, ver, transcript, calls, envelope, tampered>>

\* generate transcript and append all public inputs
New_Transcript ==
    /\ pc = "new_transcript"
    /\ LET pod_transfer_with_fee_pubkeys ==
               PodTransferWithFeePubkeysNew("source", "dest", "auditor", "fee_collector")
           pod_ciphertext_lo == Pod("TransferAmountEncryption", gen.ciphertext_lo)
           pod_ciphertext_hi == Pod("TransferAmountEncryption", gen.ciphertext_hi)
           pod_ciphertext_new_source == Pod("ElGamalCiphertext", gen.ciphertext_new_source)
           pod_ciphertext_fee == Pod("FeeEncryption", gen.ciphertext_fee)
       IN  /\ gen' = gen @@ [pod_transfer_with_fee_pubkeys |-> pod_transfer_with_fee_pubkeys,
                             pod_ciphertext_lo |-> pod_ciphertext_lo,
                             pod_ciphertext_hi |-> pod_ciphertext_hi,
                             pod_ciphertext_new_source |-> pod_ciphertext_new_source,
                             pod_ciphertext_fee |-> pod_ciphertext_fee]
           /\ transcript' = transcript_new(pod_transfer_with_fee_pubkeys, pod_ciphertext_lo,
                                           pod_ciphertext_hi, pod_ciphertext_fee)
    /\ pc' = "proof_new_commit"
    /\ UNCHANGED <<args, ver, calls, envelope, tampered, ret>>

-----------------------------------------------------------------------------
(* TransferWithFeeProof::new, called by TransferWithFeeData::new with          *)
(* (fee_amount, &ciphertext_fee, &opening_fee) and delta_fee                   *)

Invoked(fn, ok) == [fn |-> fn, ok |-> ok]

\* Pedersen::new(source_new_balance), Pedersen::new(delta_fee); append both commitments
ProofNew_Commit ==
    /\ pc = "proof_new_commit"
    /\ LET opening_source == OpeningRandom("source")
           opening_claimed == OpeningRandom("claimed")
           commitment_new_source == PedersenWith(gen.new_spendable_balance, opening_source)
           commitment_claimed == PedersenWith(gen.delta_fee, opening_claimed)
           pod_commitment_new_source == Pod("PedersenCommitment", commitment_new_source)
           pod_commitment_claimed == Pod("PedersenCommitment", commitment_claimed)
       IN  /\ gen' = gen @@ [opening_source |-> opening_source,
                             opening_claimed |-> opening_claimed,
                             commitment_new_source |-> commitment_new_source,
                             commitment_claimed |-> commitment_claimed,
                             pod_commitment_new_source |-> pod_commitment_new_source,
                             pod_commitment_claimed |-> pod_commitment_claimed]
           /\ transcript' =
                append_commitment(
                    append_commitment(transcript, "commitment-new-source",
                                      pod_commitment_new_source),
                    "commitment-claimed", pod_commitment_claimed)
    /\ pc' = "proof_new_equality"
    /\ UNCHANGED <<args, ver, calls, envelope, tampered, ret>>

\* generate equality_proof
ProofNew_Equality ==
    /\ pc = "proof_new_equality"
    /\ LET equality_proof ==
               EqualityProofNew("source", gen.new_spendable_balance, gen.opening_source,
                                transcript)
       IN  /\ gen' = gen @@ [equality_proof |-> equality_proof,
                             transcript_at_first_sub_proof |-> transcript]
           /\ transcript' = TranscriptAfter(transcript, "equality-proof", equality_proof)
    /\ calls' = Append(calls, Invoked("EqualityProof::new", TRUE))
    /\ pc' = "proof_new_amount_validity"
    /\ UNCHANGED <<args, ver, envelope, tampered, ret>>

\* generate ciphertext validity proof
ProofNew_AmountValidity ==
    /\ pc = "proof_new_amount_validity"
    /\ LET ciphertext_amount_validity_proof ==
               AggregatedValidityProofNew(gen.amount_lo, gen.amount_hi,
                                          gen.opening_lo, gen.opening_hi, transcript)
       IN  /\ gen' = gen @@ [ciphertext_amount_validity_proof |->
                                ciphertext_amount_validity_proof]
           /\ transcript' = TranscriptAfter(transcript, "aggregated-validity-proof",
                                            ciphertext_amount_validity_proof)
    /\ calls' = Append(calls, Invoked("AggregatedValidityProof::new", TRUE))
    /\ pc' = "proof_new_fee_sigma"
    /\ UNCHANGED <<args, ver, envelope, tampered, ret>>

\* compute_delta_commitment_and_opening, FeeSigmaProof::new
ProofNew_FeeSigma ==
    /\ pc = "proof_new_fee_sigma"
    /\ LET delta ==
               compute_delta_commitment_and_opening(
                   gen.ciphertext_lo.commitment, gen.opening_lo,
                   gen.ciphertext_hi.commitment, gen.opening_hi,
                   gen.ciphertext_fee.commitment, gen.opening_fee,
                   args.fee_parameters.fee_rate_basis_points)
           fee_sigma_proof ==
               FeeSigmaProofNew(gen.fee_amount, gen.opening_fee,
                                gen.delta_fee, delta.opening, gen.opening_claimed,
                                args.fee_parameters.maximum_fee, transcript)
       IN  /\ gen' = gen @@ [commitment_delta |-> delta.commitment,
                             opening_delta |-> delta.opening,
                             fee_sigma_proof |-> fee_sigma_proof]
           /\ transcript' = TranscriptAfter(transcript, "fee-sigma-proof", fee_sigma_proof)
    /\ calls' = Append(calls, Invoked("FeeSigmaProof::new", TRUE))
    /\ pc' = "proof_new_fee_validity"
    /\ UNCHANGED <<args, ver, envelope, tampered, ret>>

\* ValidityProof::new((pubkey_dest, pubkey_fee_collector), fee_amount, opening_fee, transcript)
ProofNew_FeeValidity ==
    /\ pc = "proof_new_fee_validity"
    /\ LET ciphertext_fee_validity_proof ==
               ValidityProofNew(gen.fee_amount, gen.opening_fee, transcript)
       IN  /\ gen' = gen @@ [ciphertext_fee_validity_proof |-> ciphertext_fee_validity_proof]
           /\ transcript' = TranscriptAfter(transcript, "validity-proof",
                                            ciphertext_fee_validity_proof)
    /\ calls' = Append(calls, Invoked("ValidityProof::new", TRUE))
    /\ pc' = "proof_new_range"
    /\ UNCHANGED <<args, ver, envelope, tampered, ret>>

\* RangeProof::new over the five values
ProofNew_Range ==
    /\ pc = "proof_new_range"
    /\ LET opening_claimed_negated == OpeningSub(OpeningDefault, gen.opening_claimed)
           range_proof ==
               RangeProofNew(<<gen.new_spendable_balance, gen.amount_lo, gen.amount_hi,
                               gen.delta_fee, FEE_DENOMINATOR - gen.delta_fee>>,
                             <<64, 32, 32, 64, 64>>,
                             <<gen.opening_source, gen.opening_lo, gen.opening_hi,
                               gen.opening_claimed, opening_claimed_negated>>,
                             transcript)
       IN  /\ gen' = gen @@ [range_proof |-> range_proof]
           /\ transcript' = TranscriptAfter(transcript, "range-proof", range_proof)
    /\ calls' = Append(calls, Invoked("RangeProof::new", TRUE))
    /\ pc' = "new_return"
    /\ UNCHANGED <<args, ver, envelope, tampered, ret>>

\* Self { ... } of TransferWithFeeProof::new, then Ok(Self { ... }) of TransferWithFeeData::new
New_Return ==
    /\ pc = "new_return"
    /\ envelope' =
         [ciphertext_lo |-> gen.pod_ciphertext_lo,
          ciphertext_hi |-> gen.pod_ciphertext_hi,
          transfer_with_fee_pubkeys |-> gen.pod_transfer_with_fee_pubkeys,
          ciphertext_new_source |-> gen.pod_ciphertext_new_source,
          ciphertext_fee |-> gen.pod_ciphertext_fee,
          fee_parameters |-> Pod("FeeParameters", args.fee_parameters),
          proof |->
            [commitment_new_source |-> gen.pod_commitment_new_source,
             commitment_claimed |-> gen.pod_commitment_claimed,
             equality_proof |-> Pod("EqualityProof", gen.equality_proof),
             ciphertext_amount_validity_proof |->
                Pod("AggregatedValidityProof", gen.ciphertext_amount_validity_proof),
             fee_sigma_proof |-> Pod("FeeSigmaProof", gen.fee_sigma_proof),
             ciphertext_fee_validity_proof |->
                Pod("ValidityProof", gen.ciphertext_fee_validity_proof),
             range_proof |-> Pod("RangeProof256", gen.range_proof)]]
    /\ ret' = Returned("new", TRUE, 0, "")
    /\ pc' = "ready"
    /\ UNCHANGED <<args, gen, ver, transcript, calls, tampered>>

-----------------------------------------------------------------------------
(* The envelope in transit: its fields are public plain bytes.  One field may  *)
(* be altered before a verifier or a recipient reads it: a sub-proof's         *)
(* first-round message, or the destination handle of the high limb.            *)
ProofFields == {"equality_proof", "ciphertext_amount_validity_proof", "fee_sigma_proof",
                "ciphertext_fee_validity_proof", "range_proof"}

TamperTargets == ProofFields \cup {"ciphertext_hi"}

AlteredProof(pod) == [pod EXCEPT !.body.y = "altered"]

AlteredHandle(pod) ==
    [pod EXCEPT !.body.dest = DecryptHandleOf("dest", OpeningRandom("junk"))]

Tamper ==
    /\ pc = "ready"
    /\ tampered = "none"
    /\ \E field \in TamperTargets :
         /\ tampered' = field
         /\ envelope' =
              IF field = "ciphertext_hi"
              THEN [envelope EXCEPT !.ciphertext_hi = AlteredHandle(@)]
              ELSE [envelope EXCEPT !.proof[field] = AlteredProof(@)]
    /\ UNCHANGED <<pc, args, gen, ver, transcript, calls, ret>>

\* A field may also arrive as bytes that are no valid encoding of its type
\* (a byte pattern that is no curve point or scalar).  Every pattern is a
\* FeeParameters, so fee_parameters is not among them.
EnvelopeFields == {"ciphertext_lo", "ciphertext_hi", "transfer_with_fee_pubkeys",
                   "ciphertext_new_source", "ciphertext_fee"}

CommitmentFields == {"commitment_new_source", "commitment_claimed"}

DecodedFields == EnvelopeFields \cup CommitmentFields \cup ProofFields

Malformed(pod) == [pod EXCEPT !.valid = FALSE]

Corrupt ==
    /\ pc = "ready"
    /\ tampered = "none"
    /\ \E field \in DecodedFields :
         /\ tampered' = "malformed"
         /\ envelope' =
              IF field \in EnvelopeFields
              THEN [envelope EXCEPT ![field] = Malformed(@)]
              ELSE [envelope EXCEPT !.proof[field] = Malformed(@)]
    /\ UNCHANGED <<pc, args, gen, ver, transcript, calls, ret>>

-----------------------------------------------------------------------------
(* TransferWithFeeData::decrypt_amount *)

HandleOfRole(ciphertext, role) ==
    CASE role = "Source" -> ciphertext.source
      [] role = "Dest" -> ciphertext.dest
      [] role = "Auditor" -> ciphertext.auditor

\* fn ciphertext_lo(&self, role)
ciphertext_lo(self, role) ==
    LET decoded == TryInto(self.ciphertext_lo)
    IN  IF decoded.some
        THEN Some(ElGamalCiphertext(decoded.val.commitment, HandleOfRole(decoded.val, role)))
        ELSE None

\* fn ciphertext_hi(&self, role)
ciphertext_hi(self, role) ==
    LET decoded == TryInto(self.ciphertext_hi)
    IN  IF decoded.some
        THEN Some(ElGamalCiphertext(decoded.val.commitment, HandleOfRole(decoded.val, role)))
        ELSE None

\* a recombination that forgets the limb's weight
decrypt_amount_unscaled(self, role, sk) ==
    LET lo == ciphertext_lo(self, role)
        hi == ciphertext_hi(self, role)
    IN  IF ~lo.some \/ ~hi.some
        THEN Returned("decrypt_amount", FALSE, 0, "ProofError::Verification")
        ELSE LET amount_lo == decrypt_u32_online(lo.val, sk)
                 amount_hi == decrypt_u32_online(hi.val, sk)
             IN  IF amount_lo.some /\ amount_hi.some
                 THEN Returned("decrypt_amount", TRUE, amount_lo.val + amount_hi.val, "")
                 ELSE Returned("decrypt_amount", FALSE, 0, "ProofError::Verification")

\* pub fn decrypt_amount(&self, role, sk)
decrypt_amount(self, role, sk) ==
    LET lo == ciphertext_lo(self, role)
        hi == ciphertext_hi(self, role)
    IN  IF ~lo.some \/ ~hi.some
        THEN Returned("decrypt_amount", FALSE, 0, "ProofError::Verification")
        ELSE LET amount_lo == decrypt_u32_online(lo.val, sk)
                 amount_hi == decrypt_u32_online(hi.val, sk)
             IN  IF amount_lo.some /\ amount_hi.some
                 THEN Returned("decrypt_amount", TRUE,
                               amount_lo.val + TWO_32 * amount_hi.val, "")
                 ELSE Returned("decrypt_amount", FALSE, 0, "ProofError::Verification")

\* A holder of the envelope calls decrypt_amount; the call reads the envelope
\* and changes nothing, so one call per run shows all it can return.
DecryptAmount ==
    /\ pc = "ready"
    /\ \E role \in Roles, sk \in Keys :
         ret' = decrypt_amount(envelope, role, sk) @@ [role |-> role, sk |-> sk]
    /\ pc' = "decrypted"
    /\ UNCHANGED <<args, gen, ver, transcript, calls, envelope, tampered>>

-----------------------------------------------------------------------------
(* TransferWithFeeData::verify *)

VerificationError == Returned("verify", FALSE, 0, "ProofError::Verification")

\* let mut transcript = TransferWithFeeProof::transcript_new(...)
Verify_Transcript ==
    /\ pc \in {"ready", "decrypted"}
    /\ transcript' = transcript_new(envelope.transfer_with_fee_pubkeys, envelope.ciphertext_lo,
                                    envelope.ciphertext_hi, envelope.ciphertext_fee)
    /\ calls' = << >>
    /\ ver' = NoLocals
    /\ ret' = NotReturned
    /\ pc' = "verify_decode"
    /\ UNCHANGED <<args, gen, envelope, tampered>>

\* the try_into()? of the envelope's fields, in order; fee_parameters.into()
Verify_Decode ==
    /\ pc = "verify_decode"
    /\ LET ciphertext_lo_ == TryInto(envelope.ciphertext_lo)
           ciphertext_hi_ == TryInto(envelope.ciphertext_hi)
           transfer_with_fee_pubkeys == TryInto(envelope.transfer_with_fee_pubkeys)
           new_spendable_ciphertext == TryInto(envelope.ciphertext_new_source)
           ciphertext_fee == TryInto(envelope.ciphertext_fee)
       IN  IF /\ ciphertext_lo_.some /\ ciphertext_hi_.some /\ transfer_with_fee_pubkeys.some
              /\ new_spendable_ciphertext.some /\ ciphertext_fee.some
           THEN /\ ver' = ver @@ [ciphertext_lo |-> ciphertext_lo_.val,
                                  ciphertext_hi |-> ciphertext_hi_.val,
                                  transfer_with_fee_pubkeys |-> transfer_with_fee_pubkeys.val,
                                  new_spendable_ciphertext |-> new_spendable_ciphertext.val,
                                  ciphertext_fee |-> ciphertext_fee.val,
                                  fee_parameters |-> envelope.fee_parameters.body]
                /\ pc' = "proof_verify_append"
                /\ ret' = ret
           ELSE /\ ver' = ver
                /\ pc' = "verified"
                /\ ret' = VerificationError
    /\ UNCHANGED <<args, gen, transcript, calls, envelope, tampered>>

-----------------------------------------------------------------------------
(* TransferWithFeeProof::verify *)

\* the two commitments appended the other way round
ProofVerify_Append_Swapped ==
    /\ pc = "proof_verify_append"
    /\ transcript' =
         append_commitment(
             append_commitment(transcript, "commitment-claimed",
                               envelope.proof.commitment_claimed),
             "commitment-new-source", envelope.proof.commitment_new_source)
    /\ pc' = "proof_verify_decode"
    /\ UNCHANGED <<args, gen, ver, calls, envelope, tampered, ret>>

\* transcript.append_commitment of the two commitments, as they are in the proof
ProofVerify_Append ==
    /\ pc = "proof_verify_append"
    /\ transcript' =
         append_commitment(
             append_commitment(transcript, "commitment-new-source",
                               envelope.proof.commitment_new_source),
             "commitment-claimed", envelope.proof.commitment_claimed)
    /\ pc' = "proof_verify_decode"
    /\ UNCHANGED <<args, gen, ver, calls, envelope, tampered, ret>>

\* the range proof left undecoded until its own step
ProofVerify_Decode_Lazy ==
    /\ pc = "proof_verify_decode"
    /\ LET commitment_new_source == TryInto(envelope.proof.commitment_new_source)
           commitment_claimed == TryInto(envelope.proof.commitment_claimed)
           equality_proof == TryInto(envelope.proof.equality_proof)
           ciphertext_amount_validity_proof ==
               TryInto(envelope.proof.ciphertext_amount_validity_proof)
           fee_sigma_proof == TryInto(envelope.proof.fee_sigma_proof)
           ciphertext_fee_validity_proof == TryInto(envelope.proof.ciphertext_fee_validity_proof)
       IN  IF /\ commitment_new_source.some /\ commitment_claimed.some
              /\ equality_proof.some /\ ciphertext_amount_validity_proof.some
              /\ fee_sigma_proof.some /\ ciphertext_fee_validity_proof.some
           THEN /\ ver' = ver @@ [commitment_new_source |-> commitment_new_source.val,
                                  commitment_claimed |-> commitment_claimed.val,
                                  equality_proof |-> equality_proof.val,
                                  ciphertext_amount_validity_proof |->
                                      ciphertext_amount_validity_proof.val,
                                  fee_sigma_proof |-> fee_sigma_proof.val,
                                  ciphertext_fee_validity_proof |->
                                      ciphertext_fee_validity_proof.val,
                                  range_proof |-> envelope.proof.range_proof.body,
                                  transcript_at_first_sub_proof |-> transcript]
                /\ pc' = "proof_verify_equality"
                /\ ret' = ret
           ELSE /\ ver' = ver
                /\ pc' = "verified"
                /\ ret' = VerificationError
    /\ UNCHANGED <<args, gen, transcript, calls, envelope, tampered>>

\* the try_into()? of the two commitments and the five sub-proofs
ProofVerify_Decode ==
    /\ pc = "proof_verify_decode"
    /\ LET commitment_new_source == TryInto(envelope.proof.commitment_new_source)
           commitment_claimed == TryInto(envelope.proof.commitment_claimed)
           equality_proof == TryInto(envelope.proof.equality_proof)
           ciphertext_amount_validity_proof ==
               TryInto(envelope.proof.ciphertext_amount_validity_proof)
           fee_sigma_proof == TryInto(envelope.proof.fee_sigma_proof)
           ciphertext_fee_validity_proof == TryInto(envelope.proof.ciphertext_fee_validity_proof)
           range_proof == TryInto(envelope.proof.range_proof)
       IN  IF /\ commitment_new_source.some /\ commitment_claimed.some
              /\ equality_proof.some /\ ciphertext_amount_validity_proof.some
              /\ fee_sigma_proof.some /\ ciphertext_fee_validity_proof.some
              /\ range_proof.some
           THEN /\ ver' = ver @@ [commitment_new_source |-> commitment_new_source.val,
                                  commitment_claimed |-> commitment_claimed.val,
                                  equality_proof |-> equality_proof.val,
                                  ciphertext_amount_validity_proof |->
                                      ciphertext_amount_validity_proof.val,
                                  fee_sigma_proof |-> fee_sigma_proof.val,
                                  ciphertext_fee_validity_proof |->
                                      ciphertext_fee_validity_proof.val,
                                  range_proof |-> range_proof.val,
                                  transcript_at_first_sub_proof |-> transcript]
                /\ pc' = "proof_verify_equality"
                /\ ret' = ret
           ELSE /\ ver' = ver
                /\ pc' = "verified"
                /\ ret' = VerificationError
    /\ UNCHANGED <<args, gen, transcript, calls, envelope, tampered>>


\* `verifier(...)?`: the verifier runs on the transcript; a rejection returns
\* Err(ProofError::Verification) from verify at once, an acceptance goes on to
\* the next step (after the last one, Ok(())).
SubProofChecked(fn, ok, kind, proof, next) ==
    /\ calls' = Append(calls, Invoked(fn, ok))
    /\ transcript' = TranscriptAfter(transcript, kind, proof)
    /\ IF ok
       THEN /\ pc' = next
            /\ ret' = IF next = "verified" THEN Returned("verify", TRUE, 0, "") ELSE ret
       ELSE /\ pc' = "verified"
            /\ ret' = VerificationError

\* the same without the `?`: the verifier's answer is dropped
SubProofUnchecked(fn, ok, kind, proof, next) ==
    /\ calls' = Append(calls, Invoked(fn, ok))
    /\ transcript' = TranscriptAfter(transcript, kind, proof)
    /\ pc' = next
    /\ ret' = IF next = "verified" THEN Returned("verify", TRUE, 0, "") ELSE ret

\* verify equality proof
ProofVerify_Equality ==
    /\ pc = "proof_verify_equality"
    /\ SubProofChecked("EqualityProof::verify",
                       EqualityProofVerify(ver.equality_proof,
                                           ver.transfer_with_fee_pubkeys.source,
                                           ver.new_spendable_ciphertext,
                                           ver.commitment_new_source, transcript),
                       "equality-proof", ver.equality_proof, "proof_verify_amount_validity")
    /\ UNCHANGED <<args, gen, ver, envelope, tampered>>

\* verify that the transfer amount is encrypted correctly
ProofVerify_AmountValidity ==
    /\ pc = "proof_verify_amount_validity"
    /\ SubProofChecked("AggregatedValidityProof::verify",
                       AggregatedValidityProofVerify(ver.ciphertext_amount_validity_proof,
                                                     ver.transfer_with_fee_pubkeys.dest,
                                                     ver.transfer_with_fee_pubkeys.auditor,
                                                     ver.ciphertext_lo, ver.ciphertext_hi,
                                                     transcript),
                       "aggregated-validity-proof", ver.ciphertext_amount_validity_proof,
                       "proof_verify_fee_sigma")
    /\ UNCHANGED <<args, gen, ver, envelope, tampered>>

FeeSigmaAccepts ==
    LET commitment_delta ==
            compute_delta_commitment(ver.ciphertext_lo.commitment,
                                     ver.ciphertext_hi.commitment,
                                     ver.ciphertext_fee.commitment,
                                     ver.fee_parameters.fee_rate_basis_points)
    IN  FeeSigmaProofVerify(ver.fee_sigma_proof, ver.ciphertext_fee.commitment,
                            commitment_delta, ver.commitment_claimed,
                            ver.fee_parameters.maximum_fee, transcript)

\* the fee sigma step with its `?` missing
ProofVerify_FeeSigma_Unchecked ==
    /\ pc = "proof_verify_fee_sigma"
    /\ SubProofUnchecked("FeeSigmaProof::verify", FeeSigmaAccepts,
                         "fee-sigma-proof", ver.fee_sigma_proof, "proof_verify_fee_validity")
    /\ UNCHANGED <<args, gen, ver, envelope, tampered>>

\* verify fee sigma proof
ProofVerify_FeeSigma ==
    /\ pc = "proof_verify_fee_sigma"
    /\ SubProofChecked("FeeSigmaProof::verify", FeeSigmaAccepts,
                       "fee-sigma-proof", ver.fee_sigma_proof, "proof_verify_fee_validity")
    /\ UNCHANGED <<args, gen, ver, envelope, tampered>>

\* ciphertext_fee_validity_proof.verify(...)?
ProofVerify_FeeValidity ==
    /\ pc = "proof_verify_fee_validity"
    /\ SubProofChecked("ValidityProof::verify",
                       ValidityProofVerify(ver.ciphertext_fee_validity_proof,
                                           ver.ciphertext_fee,
                                           ver.transfer_with_fee_pubkeys.dest,
                                           ver.transfer_with_fee_pubkeys.fee_collector,
                                           transcript),
                       "validity-proof", ver.ciphertext_fee_validity_proof,
                       "proof_verify_range")
    /\ UNCHANGED <<args, gen, ver, envelope, tampered>>

\* the fifth commitment without the subtraction from commit(10000)
range_proof_commitments_not_negated ==
    <<ver.commitment_new_source, ver.ciphertext_lo.commitment, ver.ciphertext_hi.commitment,
      ver.commitment_claimed, ver.commitment_claimed>>

\* commitment_claimed_negated and the first vec! handed to range_proof.verify
range_proof_commitments ==
    LET commitment_claimed_negated ==
            CommitmentSub(COMMITMENT_FEE_DENOMINATOR, ver.commitment_claimed)
    IN  <<ver.commitment_new_source, ver.ciphertext_lo.commitment, ver.ciphertext_hi.commitment,
          ver.commitment_claimed, commitment_claimed_negated>>

\* the second vec! handed to range_proof.verify
range_proof_bit_lengths == <<64, 32, 32, 64, 64>>

\* range_proof.verify(...)?; Ok(())
ProofVerify_Range ==
    /\ pc = "proof_verify_range"
    /\ SubProofChecked("RangeProof::verify",
                       RangeProofVerify(ver.range_proof, range_proof_commitments,
                                        range_proof_bit_lengths, transcript),
                       "range-proof", ver.range_proof, "verified")
    /\ UNCHANGED <<args, gen, ver, envelope, tampered>>

-----------------------------------------------------------------------------
Next ==
    \/ New_SplitEncrypt
    \/ New_CheckedSub
    \/ New_Fee
    \/ New_Transcript
    \/ ProofNew_Commit
    \/ ProofNew_Equality
    \/ ProofNew_AmountValidity
    \/ ProofNew_FeeSigma
    \/ ProofNew_FeeValidity
    \/ ProofNew_Range
    \/ New_Return
    \/ Tamper
    \/ Corrupt
    \/ DecryptAmount
    \/ Verify_Transcript
    \/ Verify_Decode
    \/ ProofVerify_Append
    \/ ProofVerify_Decode
    \/ ProofVerify_Equality
    \/ ProofVerify_AmountValidity
    \/ ProofVerify_FeeSigma
    \/ ProofVerify_FeeValidity
    \/ ProofVerify_Range

Spec == Init /\ [][Next]_vars

-----------------------------------------------------------------------------
(* State predicates used by the properties *)

Started == pc # "idle"
HasEnvelope == "proof" \in DOMAIN envelope
HasFee == "fee_amount" \in DOMAIN gen
HasDelta == "commitment_delta" \in DOMAIN gen

\* the caller handed in a ciphertext of the spendable balance
OldCiphertextIsOfBalance ==
    args.ciphertext_old_source = ElGamalEncrypt("source", args.spendable_balance,
                                                OpeningRandom("old"))

\* the value committed in the envelope's ciphertext_fee
EncryptedFee == envelope.ciphertext_fee.body.commitment.v

CeilDiv(a, b) == (a + b - 1) \div b

ScaledFee == args.transfer_amount * args.fee_parameters.fee_rate_basis_points

VerifyReturnedOk == pc = "verified" /\ ret.op = "verify" /\ ret.ok

\* The scenario of test_fee_correctness: balance 120, amount 100, rate 100, maximum 3.
TestFeeCorrectness ==
    (/\ pc = "verified"
     /\ tampered = "none"
     /\ OldCiphertextIsOfBalance
     /\ args.spendable_balance = 120
     /\ args.transfer_amount = 100
     /\ args.fee_parameters = FeeParameters(100, 3))
    => /\ VerifyReturnedOk
       /\ gen.fee_amount = 1
       /\ gen.delta_fee = 0
       /\ gen.new_spendable_balance = 20

-----------------------------------------------------------------------------
\* C1: Round trip. For every transfer_amount <= spendable_balance (the old
\* ciphertext being of that balance), every rate in [0, 10000] and every
\* maximum_fee, new returns Ok and verify on the returned envelope returns Ok,
\* also when the fee is rounded up.
C1_RoundTrip ==
    (/\ Started
     /\ args.transfer_amount <= args.spendable_balance
     /\ args.fee_parameters.fee_rate_basis_points <= FEE_DENOMINATOR
     /\ OldCiphertextIsOfBalance
     /\ tampered = "none")
    => /\ pc \notin {"failed", "panicked"}
       /\ pc = "verified" => ret = Returned("verify", TRUE, 0, "")

\* C2: Capped round trip. When the fee computed by calculate_fee exceeds
\* maximum_fee, the capped value is encrypted, the fee handed as witness to
\* the fee sigma proof and to the fee validity proof is the committed one, and
\* verify returns Ok.
C2_CappedRoundTrip ==
    (/\ pc = "verified"
     /\ tampered = "none"
     /\ OldCiphertextIsOfBalance
     /\ gen.fee_amount > args.fee_parameters.maximum_fee)
    => /\ EncryptedFee = args.fee_parameters.maximum_fee
       /\ gen.fee_sigma_proof.w.fee_amount = EncryptedFee
       /\ gen.ciphertext_fee_validity_proof.w.x = EncryptedFee
       /\ ret = Returned("verify", TRUE, 0, "")

\* C3: Underflow rejection. If transfer_amount > spendable_balance, new returns
\* Err(ProofError::Generation): no envelope, no clamped new balance, no
\* transcript, and no sub-proof generator invoked.
C3_UnderflowRejection ==
    (/\ Started
     /\ pc # "new_checked_sub"
     /\ args.transfer_amount > args.spendable_balance)
    => /\ pc = "failed"
       /\ ret = Returned("new", FALSE, 0, "ProofError::Generation")
       /\ ~HasEnvelope
       /\ "new_spendable_balance" \notin DOMAIN gen
       /\ transcript = NoTranscript
       /\ calls = << >>

C3_Witness ==
    /\ pc = "failed"
    /\ args.transfer_amount > args.spendable_balance
    /\ ret.err = "ProofError::Generation"

\* C4: calculate_fee returns f = ceil(amount * rate / 10000) exactly (no
\* truncation to the word, no overflow of fee_floor + 1) and
\* r = (amount * rate) mod 10000, for every word amount and every u16 rate.
C4_FeeIsExactCeiling ==
    /\ pc # "panicked"
    /\ HasFee =>
         /\ gen.fee_amount = CeilDiv(ScaledFee, FEE_DENOMINATOR)
         /\ gen.delta_fee = ScaledFee % FEE_DENOMINATOR
         /\ gen.delta_fee >= 0
         /\ gen.delta_fee < FEE_DENOMINATOR

\* C5: the pair (f, r) that calculate_fee returns satisfies
\* f * 10000 - r = amount * rate.
C5_RemainderIsTheGap ==
    HasFee => gen.fee_amount * FEE_DENOMINATOR - gen.delta_fee = ScaledFee

\* C6: Cap correctness. The value committed in ciphertext_fee is
\* min(fee, maximum_fee), fee being what calculate_fee returned; so it lies in
\* [0, maximum_fee].
C6_CapCorrectness ==
    HasEnvelope =>
      LET fee == calculate_fee(args.transfer_amount,
                               args.fee_parameters.fee_rate_basis_points).fee
      IN  /\ envelope.ciphertext_fee.body.commitment =
                PedersenWith(Min(fee, args.fee_parameters.maximum_fee), OpeningRandom("fee"))
          /\ EncryptedFee >= 0
          /\ EncryptedFee <= args.fee_parameters.maximum_fee

C6_Witness ==
    /\ HasEnvelope
    /\ gen.fee_amount > args.fee_parameters.maximum_fee
    /\ args.fee_parameters.maximum_fee > 0
    /\ EncryptedFee = args.fee_parameters.maximum_fee

KeyOfRole(role) ==
    CASE role = "Source" -> "source"
      [] role = "Dest" -> "dest"
      [] role = "Auditor" -> "auditor"

\* C7: Decryption correctness. On an envelope as generated, decrypt_amount
\* with a role and that role's secret key returns Ok(lo + 2^32 * hi), the
\* transfer amount; on any envelope, if a limb of the role's ciphertext does
\* not decrypt under the key, it returns Err(ProofError::Verification).
C7_DecryptionCorrectness ==
    pc = "decrypted" =>
      /\ (tampered = "none" /\ ret.sk = KeyOfRole(ret.role)) =>
            /\ ret.ok
            /\ ret.val = args.transfer_amount
            /\ ret.val = gen.amount_lo + TWO_32 * gen.amount_hi
      /\ LET lo == ElGamalCiphertext(envelope.ciphertext_lo.body.commitment,
                                     HandleOfRole(envelope.ciphertext_lo.body, ret.role))
             hi == ElGamalCiphertext(envelope.ciphertext_hi.body.commitment,
                                     HandleOfRole(envelope.ciphertext_hi.body, ret.role))
         IN  (~decrypt_u32_online(lo, ret.sk).some \/ ~decrypt_u32_online(hi, ret.sk).some)
                => (~ret.ok /\ ret.err = "ProofError::Verification")

C7_Witness ==
    /\ pc = "decrypted"
    /\ tampered = "none"
    /\ ret.role = "Auditor"
    /\ ret.sk = "auditor"
    /\ gen.amount_hi > 0
    /\ gen.amount_lo > 0
    /\ ret.ok
    /\ ret.val = args.transfer_amount

VerifierOrder ==
    <<"EqualityProof::verify", "AggregatedValidityProof::verify", "FeeSigmaProof::verify",
      "ValidityProof::verify", "RangeProof::verify">>

VerifyStepOrder ==
    <<"proof_verify_equality", "proof_verify_amount_validity", "proof_verify_fee_sigma",
      "proof_verify_fee_validity", "proof_verify_range">>

ProofVerifySteps == {VerifyStepOrder[i] : i \in 1..5}

\* C8: Verification is a short-circuit conjunction. The verifiers run in the
\* fixed order; verify returns Ok exactly when all five were invoked and
\* accepted; the first rejection returns Err(ProofError::Verification) at once,
\* so no verifier is invoked after a rejection, whichever it was.
C8_ShortCircuitConjunction ==
    /\ pc \in ProofVerifySteps =>
          /\ Len(calls) < 5
          /\ pc = VerifyStepOrder[Len(calls) + 1]
          /\ \A i \in 1..Len(calls) : calls[i].ok /\ calls[i].fn = VerifierOrder[i]
    /\ pc = "verified" =>
          /\ Len(calls) <= 5
          /\ \A i \in 1..Len(calls) : calls[i].fn = VerifierOrder[i]
          /\ \A i \in 1..(Len(calls) - 1) : calls[i].ok
          /\ ret.ok <=> (Len(calls) = 5 /\ \A i \in 1..5 : calls[i].ok)
          /\ ret.ok => ret = Returned("verify", TRUE, 0, "")
          /\ ~ret.ok => ret = Returned("verify", FALSE, 0, "ProofError::Verification")

C8_Witness ==
    /\ pc = "verified"
    /\ Len(calls) = 3
    /\ calls[1].ok /\ calls[2].ok /\ ~calls[3].ok
    /\ ret = Returned("verify", FALSE, 0, "ProofError::Verification")

\* the transcript a verifier holds at its first sub-proof step, from an envelope
VerifierTranscript(e) ==
    append_commitment(
        append_commitment(
            transcript_new(e.transfer_with_fee_pubkeys, e.ciphertext_lo, e.ciphertext_hi,
                           e.ciphertext_fee),
            "commitment-new-source", e.proof.commitment_new_source),
        "commitment-claimed", e.proof.commitment_claimed)

\* C9: the fee parameters are bound into the transcript: at the first
\* sub-proof step of generation and of verification the transcript holds a
\* message that is the fee parameters, and an envelope that differs only in its
\* fee parameters gives the verifier a different transcript.
C9_FeeParametersInTranscript ==
    /\ pc \in {"proof_new_equality", "proof_verify_equality"} =>
          \E i \in 1..Len(transcript) :
             /\ transcript[i].msg.ty = "FeeParameters"
             /\ transcript[i].msg.body = args.fee_parameters
    /\ pc = "proof_verify_equality" =>
          /\ transcript = VerifierTranscript(envelope)
          /\ \A rate \in FeeRates, maximum \in MaximumFees :
                FeeParameters(rate, maximum) # envelope.fee_parameters.body =>
                   VerifierTranscript(
                      [envelope EXCEPT !.fee_parameters =
                          Pod("FeeParameters", FeeParameters(rate, maximum))])
                   # transcript

\* C10: in generation, commitment_delta opens under opening_delta to the
\* delta_fee that calculate_fee returned and commitment_claimed commits to,
\* exactly when the fee was not capped (fee <= maximum_fee).
C10_DeltaCommitmentMeaning ==
    HasDelta =>
      ((/\ gen.commitment_delta = PedersenWith(gen.delta_fee, gen.opening_delta)
        /\ gen.commitment_claimed = PedersenWith(gen.delta_fee, gen.opening_claimed))
       <=> gen.fee_amount <= args.fee_parameters.maximum_fee)

-----------------------------------------------------------------------------
\* the labels of the transcript operations, in the order of generation
TranscriptLabels ==
    <<"dom-sep", "transfer-with-fee-pubkeys", "ciphertext-lo", "ciphertext-hi",
      "ciphertext-fee", "commitment-new-source", "commitment-claimed",
      "equality-proof", "aggregated-validity-proof", "fee-sigma-proof",
      "validity-proof", "range-proof">>

\* the sub-proofs of generation, in the order of their steps
GeneratedProofs ==
    <<gen.equality_proof, gen.ciphertext_amount_validity_proof, gen.fee_sigma_proof,
      gen.ciphertext_fee_validity_proof, gen.range_proof>>

\* the prover's transcript at the start of its i-th sub-proof step: the one the
\* i-th generator was handed and drew its challenge from
ProverTranscriptAt(i) == GeneratedProofs[i].c.tr

\* the prover's transcript when generation ended
ProverTranscriptAtEnd ==
    TranscriptAfter(ProverTranscriptAt(5), TranscriptLabels[12], GeneratedProofs[5])

\* C11: Transcript mirroring. Prover and verifier perform the transcript
\* operations in one order: the domain label "FeeProof", the pubkeys,
\* ciphertext-lo, ciphertext-hi, ciphertext-fee, commitment-new-source,
\* commitment-claimed, then the five sub-proofs; and for an envelope as
\* generated, the verifier's transcript at the start of each sub-proof step is
\* the prover's transcript at the start of the corresponding generation step
\* (and the two are equal at the end of an accepted verification).
C11_TranscriptMirroring ==
    /\ Len(transcript) <= Len(TranscriptLabels)
    /\ \A i \in 1..Len(transcript) : transcript[i].label = TranscriptLabels[i]
    /\ transcript # NoTranscript => transcript[1].msg = Pod("label", "FeeProof")
    /\ (pc \in ProofVerifySteps /\ tampered = "none") =>
          /\ transcript = ProverTranscriptAt(Len(calls) + 1)
          /\ Len(transcript) = 7 + Len(calls)
    /\ (VerifyReturnedOk /\ tampered = "none") => transcript = ProverTranscriptAtEnd

C11_Witness ==
    /\ pc = "proof_verify_range"
    /\ tampered = "none"
    /\ Len(calls) = 4
    /\ transcript = ProverTranscriptAt(5)
    /\ gen.amount_hi > 0
    /\ gen.delta_fee > 0

-----------------------------------------------------------------------------
HasRangeProof == "range_proof" \in DOMAIN gen

\* C12: Range-proof statement agreement. In every generation that got to its
\* range proof the five values are new_source_balance, amount_lo, amount_hi,
\* delta_fee and 10000 - delta_fee with bit widths 64, 32, 32, 64, 64; each
\* value lies in [0, 2^width) and 10000 - delta_fee does not underflow; the
\* verifier hands its range verifier the same widths in the same order, and
\* its i-th commitment (the fifth being commit(10000) - commitment_claimed)
\* opens to the prover's i-th value under the prover's i-th opening (the fifth
\* being the negated claimed opening).
C12_RangeStatementAgreement ==
    HasRangeProof =>
      LET w == gen.range_proof.w
      IN  /\ w.amounts = <<gen.new_spendable_balance, gen.amount_lo, gen.amount_hi,
                            gen.delta_fee, FEE_DENOMINATOR - gen.delta_fee>>
          /\ gen.new_spendable_balance = args.spendable_balance - args.transfer_amount
          /\ gen.amount_lo + TWO_32 * gen.amount_hi = args.transfer_amount
          /\ w.bit_lengths = <<64, 32, 32, 64, 64>>
          /\ w.openings = <<gen.opening_source, gen.opening_lo, gen.opening_hi,
                             gen.opening_claimed,
                             OpeningSub(OpeningDefault, gen.opening_claimed)>>
          /\ gen.delta_fee <= FEE_DENOMINATOR
          /\ \A i \in 1..5 :
                /\ w.amounts[i] >= 0
                /\ w.amounts[i] < RangeOfBits(w.bit_lengths[i])
          /\ pc = "proof_verify_range" =>
                /\ range_proof_bit_lengths = w.bit_lengths
                /\ Len(range_proof_commitments) = 5
                /\ \A i \in 1..5 :
                      range_proof_commitments[i] = PedersenWith(w.amounts[i], w.openings[i])

C12_Witness ==
    /\ pc = "verified"
    /\ tampered = "none"
    /\ Len(calls) = 5
    /\ calls[5] = Invoked("RangeProof::verify", TRUE)
    /\ gen.delta_fee > 0
    /\ gen.amount_hi > 0
    /\ gen.new_spendable_balance > 0

-----------------------------------------------------------------------------
\* the positions of a running (or returned) verify
BeforeFirstVerifier == {"verify_decode", "proof_verify_append", "proof_verify_decode"}
VerifyPositions == BeforeFirstVerifier \cup ProofVerifySteps \cup {"verified"}

\* every decoded field of the envelope is a valid encoding
AllFieldsDecode ==
    /\ \A f \in EnvelopeFields : envelope[f].valid
    /\ \A f \in CommitmentFields \cup ProofFields : envelope.proof[f].valid

\* verify holds the decoded value of every field
AllFieldsDecoded ==
    /\ ver.ciphertext_lo = envelope.ciphertext_lo.body
    /\ ver.ciphertext_hi = envelope.ciphertext_hi.body
    /\ ver.transfer_with_fee_pubkeys = envelope.transfer_with_fee_pubkeys.body
    /\ ver.new_spendable_ciphertext = envelope.ciphertext_new_source.body
    /\ ver.ciphertext_fee = envelope.ciphertext_fee.body
    /\ \A f \in CommitmentFields \cup ProofFields :
          f \in DOMAIN ver /\ ver[f] = envelope.proof[f].body

\* C13: Decode before verify. Every field of the envelope (both limb
\* encryptions, the pubkeys, the new source ciphertext, the fee encryption, the
\* two commitments and the five sub-proofs) is decoded before the first
\* sub-proof verifier is invoked; if a decode fails, verify returns
\* Err(ProofError::Verification) and no sub-proof verifier is ever invoked.
C13_DecodeBeforeVerify ==
    pc \in VerifyPositions =>
      /\ pc \in BeforeFirstVerifier => calls = << >>
      /\ (pc \in ProofVerifySteps \/ calls # << >>) =>
            /\ AllFieldsDecode
            /\ AllFieldsDecoded
      /\ ~AllFieldsDecode =>
            /\ calls = << >>
            /\ pc \notin ProofVerifySteps
            /\ pc = "verified" => ret = VerificationError

C13_Witness ==
    /\ pc = "verified"
    /\ ~envelope.proof.range_proof.valid
    /\ \A f \in DecodedFields \ {"range_proof"} :
          IF f \in EnvelopeFields THEN envelope[f].valid ELSE envelope.proof[f].valid
    /\ calls = << >>
    /\ ret = Returned("verify", FALSE, 0, "ProofError::Verification")

-----------------------------------------------------------------------------
\* the fields of the proof bundle
TransferWithFeeProofFields == CommitmentFields \cup ProofFields

\* C14: Prover/verifier delta agreement. On the same commitment_lo,
\* commitment_hi, commitment_fee and fee rate, compute_delta_commitment gives
\* the commitment_delta that compute_delta_commitment_and_opening gave the
\* prover, and it is what the verifier recomputes at its fee sigma step;
\* opening_delta is opening_fee * 10000 - (opening_lo + 2^32 * opening_hi) * rate,
\* so it opens commitment_delta to encrypted_fee * 10000 - rate * transfer_amount;
\* and the proof bundle has no delta commitment field.
C14_DeltaAgreement ==
    /\ HasDelta =>
          LET rate == args.fee_parameters.fee_rate_basis_points
              encrypted_fee == gen.ciphertext_fee.commitment.v
          IN  /\ gen.commitment_delta =
                    compute_delta_commitment(gen.ciphertext_lo.commitment,
                                             gen.ciphertext_hi.commitment,
                                             gen.ciphertext_fee.commitment, rate)
              /\ gen.opening_delta =
                    OpeningSub(OpeningScale(gen.opening_fee, FEE_DENOMINATOR),
                               OpeningScale(OpeningAdd(gen.opening_lo,
                                                       OpeningScale(gen.opening_hi, TWO_32)),
                                            rate))
              /\ gen.commitment_delta =
                    PedersenWith(encrypted_fee * FEE_DENOMINATOR - rate * args.transfer_amount,
                                 gen.opening_delta)
    /\ pc = "proof_verify_fee_sigma" =>
          compute_delta_commitment(ver.ciphertext_lo.commitment, ver.ciphertext_hi.commitment,
                                   ver.ciphertext_fee.commitment,
                                   ver.fee_parameters.fee_rate_basis_points)
            = gen.commitment_delta
    /\ HasEnvelope =>
          /\ DOMAIN envelope.proof = TransferWithFeeProofFields
          /\ "commitment_delta" \notin DOMAIN envelope.proof
          /\ "commitment_delta" \notin DOMAIN envelope

C14_Witness ==
    /\ pc = "proof_verify_fee_sigma"
    /\ gen.amount_hi > 0
    /\ gen.amount_lo > 0
    /\ ver.fee_parameters.fee_rate_basis_points > 0
    /\ ver.ciphertext_fee.commitment.v > 0
    /\ compute_delta_commitment(ver.ciphertext_lo.commitment, ver.ciphertext_hi.commitment,
                                ver.ciphertext_fee.commitment,
                                ver.fee_parameters.fee_rate_basis_points)
         = PedersenWith(gen.commitment_delta.v, gen.opening_delta)

=============================================================================
